---------------------------- MODULE Spec2Model ----------------------------
(***************************************************************************)
(* A model of the 389DS LDAP replication password manager.                 *)
(*                                                                         *)
(*   main          the command-line flow: flag validation, configuration   *)
(*                 loading, NewManager, discovery, GeneratePasswords, the  *)
(*                 planned-changes listing, the dry-run loop or the        *)
(*                 confirmation and the apply loop, the deferred Close.    *)
(*   ldap.Manager  NewManager, Close, DiscoverReplicationAgreements,       *)
(*                 UpdateReplicationPassword, GeneratePasswordUpdateCommand*)
(*   password      GeneratePasswords, generateSecurePassword,              *)
(*                 validatePassword                                        *)
(*                                                                         *)
(* The production branch of UpdateReplicationPassword holds a placeholder  *)
(* where the directory modify operation belongs.  The model puts the       *)
(* directory collaborator's modify there (ok or ModifyError, and on ok the *)
(* attribute is replaced); Modify, ModifyOutcomes and the directory        *)
(* contents are the only parts that are not read off the source.           *)
(***************************************************************************)
EXTENDS Integers, Sequences, FiniteSets, TLC

VARIABLES
    pc,             \* main: the statement main is at
    eduMode,        \* main: *eduMode  (the --edu flag, set by the default rule)
    prodMode,       \* main: *prodMode (the --prod flag)
    dryRun,         \* main: *dryRun   (the --dry-run flag)
    enableMonitor,  \* main: *enableMonitor (the --monitor flag)
    operationMode,  \* main: the announced operation mode
    monitorStarted, \* main: whether "go monitor.StartGRPCMonitor(cfg)" ran
    cfg,            \* the configuration file's content, as config.Load reads it
    ldapManager,    \* ldap.Manager: [eduMode, prodMode, connected], or NoManager
    agreements,     \* main: the slice DiscoverReplicationAgreements returned
    newPasswords,   \* main: the map GeneratePasswords returned
    planned,        \* main: the manual commands printed in step 3
    idx,            \* main: the index of the loop main is in
    calls,          \* the calls of UpdateReplicationPassword, in order, as logged
    out,            \* main: the per-agreement lines it printed or logged
    directory,      \* the credentials stored in the directory servers
    ending,         \* main: how the process ended (exit status, last message)
    response,       \* main: what fmt.Scanln read at the confirmation prompt
    gen,            \* password.Manager: one run of generateSecurePassword
    api,            \* ldap.Manager: the last call of a method, and its result
    mon             \* monitor.GRPCMonitor: its context, its tasks, its events

vars == <<pc, eduMode, prodMode, dryRun, enableMonitor, operationMode,
          monitorStarted, cfg, ldapManager, agreements, newPasswords, planned,
          idx, calls, out, directory, ending, response, gen, api, mon>>

mainVars == <<pc, eduMode, prodMode, dryRun, enableMonitor, operationMode,
              monitorStarted, cfg, ldapManager, agreements, newPasswords,
              planned, idx, calls, out, directory, ending, response>>

-----------------------------------------------------------------------------
(* Configuration values the model draws from.                              *)

\* config.go:162, the default LDAP port
DefaultPort == 389

CfgBindDN == "cn=Directory Manager"

\* ldap.host of the configuration file; "" is a file without the setting
CfgHosts == {"", "ldap.example.com"}

\* values a predefined_passwords entry may hold ("" is an empty entry)
ExplicitValues == {"", "E1", "E2"}

\* values of default_password ("" is the setting left out)
DefaultValues == {"", "D"}

\* the operator's answers to "Do you want to apply these changes? (y/N)"
Responses == {"y", "Y", "n", "yes", ""}

AgreementNames == {"agreement-to-consumer1", "agreement-to-consumer2"}

\* the credential the directory holds before any rotation
OldCredential == "old-credential"

NoManager == [eduMode |-> FALSE, prodMode |-> FALSE, connected |-> FALSE,
              built |-> FALSE]

-----------------------------------------------------------------------------
(* internal/config                                                         *)

\* validate: the required LDAP settings (the model's files set bind DN and
\* password; the host may be missing)
validate(c) == c.Host # ""

\* setDefaults, for the fields main's flow reads: the port's default is
\* the port of every model file; random generation is switched on when the
\* file names no default password and no predefined password at all
setDefaults(c) ==
    [c EXCEPT !.GenerateRandom =
        IF c.DefaultPassword = "" /\ DOMAIN c.PredefinedPasswords = {}
        THEN TRUE ELSE @]

\* Load: read, setDefaults, validate
Load(c) == validate(setDefaults(c))

-----------------------------------------------------------------------------
(* internal/ldap: Manager                                                  *)

\* the directory collaborator's connect: a session, or a ConnectionError
ConnectOutcomes == {TRUE, FALSE}

\* testConnection: the two settings it looks at, and then the place where
\* "a real implementation" checks connectivity and authentication; the
\* directory's connect stands at that place and connectOk is its answer
testConnection(c, connectOk) == c.Host # "" /\ c.BindDN # "" /\ connectOk

\* a faulty variant: the two mode arguments are stored the other way round
NewManagerSwapped(c, edu, prod, connectOk) ==
    IF prod
    THEN [err |-> FALSE,
          m |-> [eduMode |-> prod, prodMode |-> edu, connected |-> TRUE,
                 built |-> TRUE]]
    ELSE IF ~testConnection(c, connectOk)
    THEN [err |-> TRUE, m |-> NoManager]
    ELSE [err |-> FALSE,
          m |-> [eduMode |-> prod, prodMode |-> edu, connected |-> TRUE,
                 built |-> TRUE]]

\* NewManager(cfg, eduMode, prodMode): the manager, and whether it failed.
\* Educational mode makes no connection.
NewManager(c, edu, prod, connectOk) ==
    IF edu
    THEN [err |-> FALSE,
          m |-> [eduMode |-> edu, prodMode |-> prod, connected |-> TRUE,
                 built |-> TRUE]]
    ELSE IF ~testConnection(c, connectOk)
    THEN [err |-> TRUE, m |-> NoManager]
    ELSE [err |-> FALSE,
          m |-> [eduMode |-> edu, prodMode |-> prod, connected |-> TRUE,
                 built |-> TRUE]]

\* Manager.Close
Close(m) == IF m.connected THEN [m EXCEPT !.connected = FALSE] ELSE m

\* Manager.DiscoverReplicationAgreements: the two agreements it lists
DiscoveredAgreements(c) ==
    << [Name |-> "agreement-to-consumer1", Supplier |-> c.Host,
        Consumer |-> "consumer1.example.com",
        BindDN |-> "cn=replication manager,cn=config",
        DN |-> "cn=agreement-to-consumer1,cn=replica,cn=dc=example,dc=com,cn=mapping tree,cn=config",
        Enabled |-> TRUE],
       [Name |-> "agreement-to-consumer2", Supplier |-> c.Host,
        Consumer |-> "consumer2.example.com",
        BindDN |-> "cn=replication manager,cn=config",
        DN |-> "cn=agreement-to-consumer2,cn=replica,cn=dc=example,dc=com,cn=mapping tree,cn=config",
        Enabled |-> TRUE] >>

\* the directory collaborator's search: the agreement entries, no entry,
\* or a QueryError
SearchOutcomes == {"entries", "no entries", "QueryError"}

\* Manager.DiscoverReplicationAgreements.  The source lists its two
\* agreements at the place where "a real implementation" performs the
\* search; outside educational mode the directory's search stands at that
\* place and search is its answer.
DiscoverReplicationAgreements(m, c, search) ==
    IF ~m.connected
    THEN [err |-> TRUE, agreements |-> <<>>]
    ELSE IF m.eduMode \/ search = "entries"
    THEN [err |-> FALSE, agreements |-> DiscoveredAgreements(c)]
    ELSE IF search = "no entries"
    THEN [err |-> FALSE, agreements |-> <<>>]
    ELSE [err |-> TRUE, agreements |-> <<>>]

\* a faulty variant: the consumer command replaces the agreement's credential attribute
GeneratePasswordUpdateCommandOneBranch(c, server, agreementName, newPassword, serverType) ==
    "ldapmodify -x -D \"" \o c.BindDN \o "\" -W -H ldap://" \o server \o ":"
    \o ToString(c.Port) \o " << EOF\ndn: "
    \o "cn=" \o agreementName
    \o ",cn=replica,cn=dc=example,dc=com,cn=mapping tree,cn=config"
    \o "\nchangetype: modify\nreplace: nsds5replicacredentials\nnsds5replicacredentials: "
    \o newPassword \o "\nEOF"

\* a faulty variant: the supplier command names the agreement under cn=config
GeneratePasswordUpdateCommandShortDN(c, server, agreementName, newPassword, serverType) ==
    IF serverType = "supplier"
    THEN "ldapmodify -x -D \"" \o c.BindDN \o "\" -W -H ldap://" \o server \o ":"
         \o ToString(c.Port) \o " << EOF\ndn: "
         \o "cn=" \o agreementName \o ",cn=config"
         \o "\nchangetype: modify\nreplace: nsds5replicacredentials\nnsds5replicacredentials: "
         \o newPassword \o "\nEOF"
    ELSE "ldapmodify -x -D \"" \o c.BindDN \o "\" -W -H ldap://" \o server \o ":"
         \o ToString(c.Port) \o " << EOF\ndn: "
         \o "cn=replication manager,cn=config"
         \o "\nchangetype: modify\nreplace: userPassword\nuserPassword: "
         \o newPassword \o "\nEOF"

\* Manager.GeneratePasswordUpdateCommand
GeneratePasswordUpdateCommand(c, server, agreementName, newPassword, serverType) ==
    IF serverType = "supplier"
    THEN "ldapmodify -x -D \"" \o c.BindDN \o "\" -W -H ldap://" \o server \o ":"
         \o ToString(c.Port) \o " << EOF\ndn: "
         \o "cn=" \o agreementName
         \o ",cn=replica,cn=dc=example,dc=com,cn=mapping tree,cn=config"
         \o "\nchangetype: modify\nreplace: nsds5replicacredentials\nnsds5replicacredentials: "
         \o newPassword \o "\nEOF"
    ELSE "ldapmodify -x -D \"" \o c.BindDN \o "\" -W -H ldap://" \o server \o ":"
         \o ToString(c.Port) \o " << EOF\ndn: "
         \o "cn=replication manager,cn=config"
         \o "\nchangetype: modify\nreplace: userPassword\nuserPassword: "
         \o newPassword \o "\nEOF"

\* UpdateReplicationPassword, production branch: what it updates, and where
WriteTarget(server, agreementName, serverType) ==
    IF serverType = "supplier"
    THEN [server |-> server, object |-> agreementName,
          attr |-> "nsds5replicacredentials"]
    ELSE [server |-> server, object |-> "replication manager",
          attr |-> "userPassword"]

\* the directory collaborator's modify: ok, or a ModifyError
ModifyOutcomes == {TRUE, FALSE}

\* the directory collaborator's modify(location, attribute, newValue)
Modify(dir, target, value, ok) ==
    IF ok /\ target \in DOMAIN dir THEN [dir EXCEPT ![target] = value] ELSE dir

NoTarget == [server |-> "", object |-> "", attr |-> ""]

\* a faulty variant: the check of the connected flag is missing
UpdateReplicationPasswordUnchecked(m, c, dir, server, agreementName, newPassword, serverType, modifyOk) ==
    IF m.eduMode
    THEN [err |-> FALSE, dir |-> dir,
          call |-> [name |-> agreementName, side |-> serverType,
                    server |-> server, value |-> newPassword,
                    mode |-> "educational", err |-> FALSE,
                    target |-> NoTarget, command |-> ""]]
    ELSE IF m.prodMode
    THEN LET target == WriteTarget(server, agreementName, serverType)
         IN [err |-> ~modifyOk,
             dir |-> Modify(dir, target, newPassword, modifyOk),
             call |-> [name |-> agreementName, side |-> serverType,
                       server |-> server, value |-> newPassword,
                       mode |-> "production", err |-> ~modifyOk,
                       target |-> target, command |-> ""]]
    ELSE [err |-> FALSE, dir |-> dir,
          call |-> [name |-> agreementName, side |-> serverType,
                    server |-> server, value |-> newPassword,
                    mode |-> "dry-run", err |-> FALSE,
                    target |-> NoTarget,
                    command |-> GeneratePasswordUpdateCommand(
                                    c, server, agreementName, newPassword,
                                    serverType)]]

\* Manager.UpdateReplicationPassword.  The result: the error returned, the
\* directory afterwards, and the call as the log shows it.  The source's
\* production branch logs where "real LDAP operations would occur" and the
\* errors a real implementation would check for, and returns nil; here the
\* directory's modify stands at that place and modifyOk is its answer.  The
\* educational and dry-run branches perform no modify and return nil.
UpdateReplicationPassword(m, c, dir, server, agreementName, newPassword, serverType, modifyOk) ==
    IF ~m.connected
    THEN [err |-> TRUE, dir |-> dir,
          call |-> [name |-> agreementName, side |-> serverType,
                    server |-> server, value |-> newPassword,
                    mode |-> "not connected", err |-> TRUE,
                    target |-> NoTarget, command |-> ""]]
    ELSE IF m.eduMode
    THEN [err |-> FALSE, dir |-> dir,
          call |-> [name |-> agreementName, side |-> serverType,
                    server |-> server, value |-> newPassword,
                    mode |-> "educational", err |-> FALSE,
                    target |-> NoTarget, command |-> ""]]
    ELSE IF m.prodMode
    THEN LET target == WriteTarget(server, agreementName, serverType)
         IN [err |-> ~modifyOk,
             dir |-> Modify(dir, target, newPassword, modifyOk),
             call |-> [name |-> agreementName, side |-> serverType,
                       server |-> server, value |-> newPassword,
                       mode |-> "production", err |-> ~modifyOk,
                       target |-> target, command |-> ""]]
    ELSE [err |-> FALSE, dir |-> dir,
          call |-> [name |-> agreementName, side |-> serverType,
                    server |-> server, value |-> newPassword,
                    mode |-> "dry-run", err |-> FALSE,
                    target |-> NoTarget,
                    command |-> GeneratePasswordUpdateCommand(
                                    c, server, agreementName, newPassword,
                                    serverType)]]

-----------------------------------------------------------------------------
(* internal/password: GeneratePasswords                                    *)

\* a faulty variant: the default password is looked at before the predefined one
PasswordForDefaultFirst(pc_, name) ==
    IF pc_.DefaultPassword # ""
    THEN pc_.DefaultPassword
    ELSE IF name \in DOMAIN pc_.PredefinedPasswords /\ pc_.PredefinedPasswords[name] # ""
    THEN pc_.PredefinedPasswords[name]
    ELSE ""

\* the password GeneratePasswords assigns to one agreement; "" when it found
\* neither a predefined nor a default password
PasswordFor(pc_, name) ==
    IF name \in DOMAIN pc_.PredefinedPasswords /\ pc_.PredefinedPasswords[name] # ""
    THEN pc_.PredefinedPasswords[name]
    ELSE IF pc_.DefaultPassword # ""
    THEN pc_.DefaultPassword
    ELSE ""

\* Manager.GeneratePasswords
GeneratePasswords(pc_, ags) ==
    [n \in {ags[i].Name : i \in 1..Len(ags)} |-> PasswordFor(pc_, n)]


-----------------------------------------------------------------------------
(* main                                                                    *)

PredefinedMaps ==
    UNION {[S -> ExplicitValues] : S \in SUBSET AgreementNames}

Configs ==
    [Host : CfgHosts, Port : {DefaultPort}, BindDN : {CfgBindDN},
     PredefinedPasswords : PredefinedMaps, DefaultPassword : DefaultValues,
     GenerateRandom : BOOLEAN]

Servers ==
    (CfgHosts \ {""}) \cup {"consumer1.example.com", "consumer2.example.com"}

DirectoryKeys ==
    [server : Servers,
     object : AgreementNames \cup {"replication manager"},
     attr : {"nsds5replicacredentials", "userPassword"}]

GenIdle == [pc |-> "idle"]

\* no method of a Manager has been called from outside main
ApiIdle == [op |-> "none"]

\* monitor.StartGRPCMonitor is not running
MonIdle == [pc |-> "idle"]

\* the process is running
NotEnded == [status |-> -1, message |-> ""]

\* main has not read a response
NoResponse == "(not asked)"

MainInit ==
    /\ pc = "flags"
    /\ eduMode \in BOOLEAN
    /\ prodMode \in BOOLEAN
    /\ dryRun \in BOOLEAN
    /\ enableMonitor \in BOOLEAN
    /\ operationMode = ""
    /\ monitorStarted = FALSE
    /\ cfg \in Configs
    /\ ldapManager = NoManager
    /\ agreements = <<>>
    /\ newPasswords = <<>>
    /\ planned = <<>>
    /\ idx = 0
    /\ calls = <<>>
    /\ out = <<>>
    /\ directory = [k \in DirectoryKeys |-> OldCredential]
    /\ ending = NotEnded
    /\ response = NoResponse

Init == MainInit /\ gen = GenIdle /\ api = ApiIdle /\ mon = MonIdle

\* the number of mode flags given
modeCount == (IF eduMode THEN 1 ELSE 0) + (IF prodMode THEN 1 ELSE 0)
             + (IF dryRun THEN 1 ELSE 0)

\* main: operationMode after the three "if *flag" statements (the last
\* flag that is set names it)
flagMode == IF dryRun THEN "dry-run"
            ELSE IF prodMode THEN "production"
            ELSE IF eduMode THEN "educational"
            ELSE ""

\* a faulty variant: more than one mode flag does not stop the program
ValidateFlagsNoAbort ==
    /\ pc = "flags"
    /\ IF modeCount = 0
       THEN /\ eduMode' = TRUE
            /\ operationMode' = "educational (default)"
       ELSE /\ operationMode' = flagMode
            /\ UNCHANGED eduMode
    /\ pc' = "load"
    /\ UNCHANGED <<prodMode, dryRun, enableMonitor, monitorStarted, cfg,
                   ldapManager, agreements, newPasswords, planned, idx, calls,
                   out, directory, ending, response, gen, api, mon>>

\* main: mode flag validation
ValidateFlags ==
    /\ pc = "flags"
    /\ IF modeCount = 0
       THEN /\ eduMode' = TRUE
            /\ operationMode' = "educational (default)"
            /\ pc' = "load"
            /\ UNCHANGED ending
       ELSE IF modeCount > 1
       THEN /\ pc' = "fatal"
            /\ operationMode' = flagMode
            /\ ending' = [ending EXCEPT !.message =
                              "Error: Only one mode can be specified at a time"]
            /\ UNCHANGED eduMode
       ELSE /\ operationMode' = flagMode
            /\ pc' = "load"
            /\ UNCHANGED <<eduMode, ending>>
    /\ UNCHANGED <<prodMode, dryRun, enableMonitor, monitorStarted, cfg,
                   ldapManager, agreements, newPasswords, planned, idx, calls,
                   out, directory, response, gen, api, mon>>

\* main: config.Load
LoadConfig ==
    /\ pc = "load"
    /\ IF Load(cfg)
       THEN /\ cfg' = setDefaults(cfg)
            /\ pc' = "monitor"
            /\ UNCHANGED ending
       ELSE /\ pc' = "fatal"
            /\ ending' = [ending EXCEPT !.message =
                              "Failed to load configuration"]
            /\ UNCHANGED cfg
    /\ UNCHANGED <<eduMode, prodMode, dryRun, enableMonitor, operationMode,
                   monitorStarted, ldapManager, agreements, newPasswords,
                   planned, idx, calls, out, directory, response, gen, api, mon>>

\* a faulty variant: StartGRPCMonitor is called without go, and main waits
\* in it for the context to be done
StartMonitorBlocking ==
    /\ pc = "monitor"
    /\ IF enableMonitor
       THEN /\ ~monitorStarted
            /\ monitorStarted' = TRUE
            /\ UNCHANGED pc
       ELSE /\ pc' = "connect"
            /\ UNCHANGED monitorStarted
    /\ UNCHANGED <<eduMode, prodMode, dryRun, enableMonitor, operationMode,
                   cfg, ldapManager, agreements, newPasswords, planned, idx,
                   calls, out, directory, ending, response, gen, api, mon>>

\* main: if *enableMonitor { go monitor.StartGRPCMonitor(cfg) }
StartMonitor ==
    /\ pc = "monitor"
    /\ monitorStarted' = enableMonitor
    /\ pc' = "connect"
    /\ UNCHANGED <<eduMode, prodMode, dryRun, enableMonitor, operationMode,
                   cfg, ldapManager, agreements, newPasswords, planned, idx,
                   calls, out, directory, ending, response, gen, api, mon>>

\* main: ldap.NewManager(cfg, *eduMode, *prodMode); defer ldapManager.Close()
Connect ==
    /\ pc = "connect"
    /\ \E connectOk \in ConnectOutcomes :
        LET r == NewManager(cfg, eduMode, prodMode, connectOk)
        IN /\ ldapManager' = r.m
           /\ IF r.err
              THEN /\ pc' = "fatal"
                   /\ ending' = [ending EXCEPT !.message =
                                     "Failed to create LDAP manager"]
              ELSE pc' = "discover" /\ UNCHANGED ending
    /\ UNCHANGED <<eduMode, prodMode, dryRun, enableMonitor, operationMode,
                   monitorStarted, cfg, agreements, newPasswords, planned,
                   idx, calls, out, directory, response, gen, api, mon>>

\* a faulty variant: a failed discovery is logged and the cycle goes on
AfterDiscoverLogsError(err, found) ==
    IF err
    THEN [pc |-> "resolve",
          message |-> "Failed to discover replication agreements"]
    ELSE IF found = 0
    THEN [pc |-> "exit0", message |-> "No replication agreements found."]
    ELSE [pc |-> "resolve", message |-> ""]

\* a faulty variant: the check for an empty result is missing
AfterDiscoverNoEmptyCheck(err, found) ==
    IF err
    THEN [pc |-> "fatal",
          message |-> "Failed to discover replication agreements"]
    ELSE [pc |-> "resolve", message |-> ""]

\* where main goes after DiscoverReplicationAgreements returned err and
\* found agreements: log.Fatalf on an error, os.Exit(0) after its message
\* when there is no agreement, else on to step 2
AfterDiscover(err, found) ==
    IF err
    THEN [pc |-> "fatal",
          message |-> "Failed to discover replication agreements"]
    ELSE IF found = 0
    THEN [pc |-> "exit0", message |-> "No replication agreements found."]
    ELSE [pc |-> "resolve", message |-> ""]

\* main, step 1: DiscoverReplicationAgreements
Discover ==
    /\ pc = "discover"
    /\ \E search \in SearchOutcomes :
        LET r == DiscoverReplicationAgreements(ldapManager, cfg, search)
            a == AfterDiscover(r.err, Len(r.agreements))
        IN /\ agreements' = r.agreements
           /\ pc' = a.pc
           /\ ending' = [ending EXCEPT !.message = a.message]
    /\ UNCHANGED <<eduMode, prodMode, dryRun, enableMonitor, operationMode,
                   monitorStarted, cfg, ldapManager, newPasswords, planned,
                   idx, calls, out, directory, response, gen, api, mon>>

\* main, step 2: passwordManager.GeneratePasswords(agreements)
Resolve ==
    /\ pc = "resolve"
    /\ newPasswords' = GeneratePasswords(cfg, agreements)
    /\ idx' = 1
    /\ pc' = "plan"
    /\ UNCHANGED <<eduMode, prodMode, dryRun, enableMonitor, operationMode,
                   monitorStarted, cfg, ldapManager, agreements, planned,
                   calls, out, directory, ending, response, gen, api, mon>>

\* a faulty variant: both calls are given the supplier's address
ServerArgSupplierOnly(agreement, serverType) == agreement.Supplier

\* the server main passes to the call for one side of an agreement
ServerArg(agreement, serverType) ==
    IF serverType = "supplier" THEN agreement.Supplier ELSE agreement.Consumer

\* main, step 3: one iteration of the planned-changes loop
Plan ==
    /\ pc = "plan"
    /\ idx <= Len(agreements)
    /\ LET agreement == agreements[idx]
           newPassword == newPasswords[agreement.Name]
           cmd(serverType) ==
               [name |-> agreement.Name, side |-> serverType,
                command |-> GeneratePasswordUpdateCommand(
                                cfg, ServerArg(agreement, serverType),
                                agreement.Name, newPassword, serverType)]
       IN planned' = planned \o <<cmd("supplier"), cmd("consumer")>>
    /\ idx' = idx + 1
    /\ UNCHANGED <<pc, eduMode, prodMode, dryRun, enableMonitor,
                   operationMode, monitorStarted, cfg, ldapManager,
                   agreements, newPasswords, calls, out, directory, ending,
                   response, gen, api, mon>>

\* a faulty variant: the loop body starts with the consumer update
IterationStartConsumer == "consumer"

\* the call an iteration of the dry-run loop or of the apply loop starts with
IterationStart == "supplier"

\* a faulty variant: dry-run returns after the listing, without its loop
PlanDoneDryRunReturns ==
    /\ pc = "plan"
    /\ idx > Len(agreements)
    /\ IF dryRun
       THEN pc' = "return" /\ UNCHANGED idx
       ELSE pc' = "confirm" /\ UNCHANGED idx
    /\ UNCHANGED <<eduMode, prodMode, dryRun, enableMonitor, operationMode,
                   monitorStarted, cfg, ldapManager, agreements, newPasswords,
                   planned, calls, out, directory, ending, response, gen, api, mon>>

\* main: the planned-changes loop is over; dry-run goes to its loop, the
\* other modes ask for confirmation
PlanDone ==
    /\ pc = "plan"
    /\ idx > Len(agreements)
    /\ IF dryRun
       THEN pc' = IterationStart /\ idx' = 1
       ELSE pc' = "confirm" /\ UNCHANGED idx
    /\ UNCHANGED <<eduMode, prodMode, dryRun, enableMonitor, operationMode,
                   monitorStarted, cfg, ldapManager, agreements, newPasswords,
                   planned, calls, out, directory, ending, response, gen, api, mon>>

\* a faulty variant: every response but "n" confirms
ConfirmedUnlessNo(r) == r # "n"

\* whether the operator's response confirms the changes
Confirmed(r) == r = "y" \/ r = "Y"

\* main: the confirmation prompt
Confirm ==
    /\ pc = "confirm"
    /\ \E r \in Responses :
          /\ response' = r
          /\ IF Confirmed(r)
             THEN pc' = IterationStart /\ idx' = 1 /\ UNCHANGED ending
             ELSE /\ pc' = "return"
                  /\ ending' = [ending EXCEPT
                                    !.message = "Operation cancelled."]
                  /\ UNCHANGED idx
    /\ UNCHANGED <<eduMode, prodMode, dryRun, enableMonitor, operationMode,
                   monitorStarted, cfg, ldapManager, agreements, newPasswords,
                   planned, calls, out, directory, gen, api, mon>>

\* a faulty variant: the continue after a supplier failure is missing
AfterSupplierFallThrough(err) ==
    IF err
    THEN [pc |-> "consumer", next |-> 0, line |-> "supplier failed"]
    ELSE [pc |-> "consumer", next |-> 0, line |-> ""]

\* where the loop goes after the supplier call: on an error it logs the
\* failure and continues with the next agreement
AfterSupplier(err) ==
    IF err
    THEN [pc |-> IterationStart, next |-> 1, line |-> "supplier failed"]
    ELSE [pc |-> "consumer", next |-> 0, line |-> ""]

\* a faulty variant: a consumer failure leaves the loop (a break, not a continue)
AfterConsumerBreak(err) ==
    IF err
    THEN [pc |-> IterationStart, next |-> Len(agreements) + 1 - idx,
          line |-> "consumer failed"]
    ELSE [pc |-> IterationStart, next |-> 1, line |-> "success"]

\* a faulty variant: a consumer failure is logged with the supplier's failure line
AfterConsumerSupplierLine(err) ==
    IF err
    THEN [pc |-> IterationStart, next |-> 1, line |-> "supplier failed"]
    ELSE [pc |-> IterationStart, next |-> 1, line |-> "success"]

\* a faulty variant: a failed consumer update is tried again
AfterConsumerRetry(err) ==
    IF err
    THEN [pc |-> "consumer", next |-> 0, line |-> "consumer failed"]
    ELSE [pc |-> IterationStart, next |-> 1, line |-> "success"]

\* a faulty variant: the success line is printed whatever the consumer call returned
AfterConsumerAlwaysSuccess(err) ==
    [pc |-> IterationStart, next |-> 1, line |-> "success"]

\* where the loop goes after the consumer call: the next agreement, after
\* the failure line or the success line
AfterConsumer(err) ==
    IF err
    THEN [pc |-> IterationStart, next |-> 1, line |-> "consumer failed"]
    ELSE [pc |-> IterationStart, next |-> 1, line |-> "success"]

\* main: the line printed or logged for an agreement (the dry-run loop and
\* the apply loop word them differently)
Line(kind, name) == [loop |-> IF dryRun THEN "dry-run" ELSE "apply",
                     kind |-> kind, name |-> name]

\* a call of UpdateReplicationPassword from the loop, and what follows it
LoopCall(serverType) ==
    /\ idx <= Len(agreements)
    /\ \E modifyOk \in ModifyOutcomes :
        LET agreement == agreements[idx]
            newPassword == newPasswords[agreement.Name]
            r == UpdateReplicationPassword(
                     ldapManager, cfg, directory,
                     ServerArg(agreement, serverType), agreement.Name,
                     newPassword, serverType, modifyOk)
            a == IF serverType = "supplier" THEN AfterSupplier(r.err)
                 ELSE AfterConsumer(r.err)
        IN /\ calls' = Append(calls, r.call)
           /\ directory' = r.dir
           /\ out' = IF a.line = "" THEN out
                     ELSE Append(out, Line(a.line, agreement.Name))
           /\ pc' = a.pc
           /\ idx' = idx + a.next
    /\ UNCHANGED <<eduMode, prodMode, dryRun, enableMonitor, operationMode,
                   monitorStarted, cfg, ldapManager, agreements, newPasswords,
                   planned, ending, response, gen, api, mon>>

\* main, step 4: the supplier update of the agreement at idx
UpdateSupplier ==
    /\ pc = "supplier"
    /\ LoopCall("supplier")

\* main, step 4: the consumer update of the agreement at idx
UpdateConsumer ==
    /\ pc = "consumer"
    /\ LoopCall("consumer")

\* main: the dry-run loop or the apply loop is over
LoopDone ==
    /\ pc \in {"supplier", "consumer"}
    /\ idx > Len(agreements)
    /\ pc' = "return"
    /\ ending' = [ending EXCEPT !.message =
                      IF dryRun
                      THEN "Dry-run completed: No actual changes were made."
                      ELSE "Password update completed!"]
    /\ UNCHANGED <<eduMode, prodMode, dryRun, enableMonitor, operationMode,
                   monitorStarted, cfg, ldapManager, agreements, newPasswords,
                   planned, idx, calls, out, directory, response, gen, api, mon>>

\* main returns: the deferred ldapManager.Close() runs, the exit status is 0
Return ==
    /\ pc = "return"
    /\ ldapManager' = Close(ldapManager)
    /\ pc' = "done"
    /\ ending' = [ending EXCEPT !.status = 0]
    /\ UNCHANGED <<eduMode, prodMode, dryRun, enableMonitor, operationMode,
                   monitorStarted, cfg, agreements, newPasswords, planned,
                   idx, calls, out, directory, response, gen, api, mon>>

\* log.Fatalf: the process exits with status 1, deferred calls do not run
Fatal ==
    /\ pc = "fatal"
    /\ pc' = "exited"
    /\ ending' = [ending EXCEPT !.status = 1]
    /\ UNCHANGED <<eduMode, prodMode, dryRun, enableMonitor, operationMode,
                   monitorStarted, cfg, ldapManager, agreements, newPasswords,
                   planned, idx, calls, out, directory, response, gen, api, mon>>

\* os.Exit(0) after "No replication agreements found.": the process exits
\* with status 0, deferred calls do not run
ExitZero ==
    /\ pc = "exit0"
    /\ pc' = "exited"
    /\ ending' = [ending EXCEPT !.status = 0]
    /\ UNCHANGED <<eduMode, prodMode, dryRun, enableMonitor, operationMode,
                   monitorStarted, cfg, ldapManager, agreements, newPasswords,
                   planned, idx, calls, out, directory, response, gen, api, mon>>

Next ==
    \/ ValidateFlags
    \/ LoadConfig
    \/ StartMonitor
    \/ Connect
    \/ Discover
    \/ Resolve
    \/ Plan
    \/ PlanDone
    \/ Confirm
    \/ UpdateSupplier
    \/ UpdateConsumer
    \/ LoopDone
    \/ Return
    \/ Fatal
    \/ ExitZero

Spec == Init /\ [][Next]_vars

-----------------------------------------------------------------------------
(* internal/password: generateSecurePassword, validatePassword             *)

\* the longest password.length the generator is run with
MaxLength == 4

\* the four character classes, cut to two characters each
Lowercase == <<"a", "l">>
Uppercase == <<"A", "O">>
Numbers == <<"0", "7">>
Special == <<"!", "@">>

Range(seq) == {seq[i] : i \in 1..Len(seq)}

\* values of password.exclude_chars: none, the default "0O1lI", and one that
\* excludes every lowercase letter of the model's alphabet
ExcludeValues == {<<>>, <<"0", "O", "1", "l", "I">>, <<"a", "l">>}

GenConfigs ==
    [Length : 1..MaxLength, IncludeLowercase : BOOLEAN,
     IncludeUppercase : BOOLEAN, IncludeNumbers : BOOLEAN,
     IncludeSpecial : BOOLEAN, ExcludeChars : ExcludeValues]

\* strings.ReplaceAll(charset, string(char), "")
ReplaceAll(charset, char) == SelectSeq(charset, LAMBDA x : x # char)

\* a faulty variant: the excluded characters stay in the character set
RemoveExcludedNothing(charset, excluded) == charset

\* generateSecurePassword: the loop that removes the excluded characters
RECURSIVE RemoveExcluded(_, _)
RemoveExcluded(charset, excluded) ==
    IF excluded = <<>> THEN charset
    ELSE RemoveExcluded(ReplaceAll(charset, Head(excluded)), Tail(excluded))

\* generateSecurePassword: the character set it draws from
Charset(c) ==
    RemoveExcluded(
        (IF c.IncludeLowercase THEN Lowercase ELSE <<>>)
        \o (IF c.IncludeUppercase THEN Uppercase ELSE <<>>)
        \o (IF c.IncludeNumbers THEN Numbers ELSE <<>>)
        \o (IF c.IncludeSpecial THEN Special ELSE <<>>),
        c.ExcludeChars)

\* validatePassword: "" when the password is accepted, else the error
validatePassword(c, password) ==
    LET hasLower == \E i \in 1..Len(password) : password[i] \in Range(Lowercase)
        hasUpper == \E i \in 1..Len(password) : password[i] \in Range(Uppercase)
        hasNumber == \E i \in 1..Len(password) : password[i] \in Range(Numbers)
        hasSpecial == \E i \in 1..Len(password) : password[i] \in Range(Special)
    IN IF Len(password) < c.Length THEN "password too short"
       ELSE IF c.IncludeLowercase /\ ~hasLower
       THEN "password missing lowercase letters"
       ELSE IF c.IncludeUppercase /\ ~hasUpper
       THEN "password missing uppercase letters"
       ELSE IF c.IncludeNumbers /\ ~hasNumber
       THEN "password missing numbers"
       ELSE IF c.IncludeSpecial /\ ~hasSpecial
       THEN "password missing special characters"
       ELSE ""

\* a fixed state of main, for the runs of the generator alone
MainIdle ==
    /\ pc = "flags"
    /\ eduMode = FALSE
    /\ prodMode = FALSE
    /\ dryRun = FALSE
    /\ enableMonitor = FALSE
    /\ operationMode = ""
    /\ monitorStarted = FALSE
    /\ cfg = [Host |-> "ldap.example.com", Port |-> DefaultPort,
              BindDN |-> CfgBindDN, PredefinedPasswords |-> <<>>,
              DefaultPassword |-> "", GenerateRandom |-> TRUE]
    /\ ldapManager = NoManager
    /\ agreements = <<>>
    /\ newPasswords = <<>>
    /\ planned = <<>>
    /\ idx = 0
    /\ calls = <<>>
    /\ out = <<>>
    /\ directory = [k \in DirectoryKeys |-> OldCredential]
    /\ ending = NotEnded
    /\ response = NoResponse

\* a call of generateSecurePassword with one configuration
GenInit ==
    /\ MainIdle
    /\ gen \in {[pc |-> "charset", cfg |-> c, charset |-> <<>>,
                 password |-> <<>>, result |-> <<>>, err |-> ""] :
                c \in GenConfigs}
    /\ api = ApiIdle
    /\ mon = MonIdle

\* generateSecurePassword: build the character set; fail when it is empty
BuildCharset ==
    /\ gen.pc = "charset"
    /\ LET charset == Charset(gen.cfg)
       IN IF Len(charset) = 0
          THEN gen' = [gen EXCEPT !.pc = "returned", !.charset = charset,
                          !.err = "no characters available for password generation"]
          ELSE gen' = [gen EXCEPT !.pc = "draw", !.charset = charset,
                          !.password = <<>>]
    /\ UNCHANGED <<mainVars, api, mon>>

\* generateSecurePassword: rand.Int gives the index of the next character
DrawChar ==
    /\ gen.pc = "draw"
    /\ Len(gen.password) < gen.cfg.Length
    /\ \E randomIndex \in 0..(Len(gen.charset) - 1) :
          gen' = [gen EXCEPT
                     !.password = Append(@, gen.charset[randomIndex + 1])]
    /\ UNCHANGED <<mainVars, api, mon>>

\* generateSecurePassword: rand.Int fails
DrawFails ==
    /\ gen.pc = "draw"
    /\ Len(gen.password) < gen.cfg.Length
    /\ gen' = [gen EXCEPT !.pc = "returned",
                          !.err = "failed to generate random number"]
    /\ UNCHANGED <<mainVars, api, mon>>

\* generateSecurePassword: the password is complete; return it when
\* validatePassword accepts it, else call generateSecurePassword again
ValidateGenerated ==
    /\ gen.pc = "draw"
    /\ Len(gen.password) = gen.cfg.Length
    /\ IF validatePassword(gen.cfg, gen.password) = ""
       THEN gen' = [gen EXCEPT !.pc = "returned", !.result = gen.password]
       ELSE gen' = [gen EXCEPT !.pc = "charset", !.password = <<>>,
                               !.charset = <<>>]
    /\ UNCHANGED <<mainVars, api, mon>>

GenNext ==
    \/ BuildCharset
    \/ DrawChar
    \/ DrawFails
    \/ ValidateGenerated

SpecGen == GenInit /\ [][GenNext]_vars

\* the call keeps running: a step it can take, it takes
SpecGenFair == GenInit /\ [][GenNext]_vars /\ WF_vars(GenNext)

\* config.go:173, the default of password.length
DefaultLength == 16

\* config.go:183, the default of password.exclude_chars
DefaultExcludeChars == <<"0", "O", "1", "l", "I">>

\* setDefaults, for the fields generateSecurePassword reads: a length that
\* is not set gets the default, the four Include fields are set to true,
\* an empty exclusion list gets the default
setDefaultsPassword(f) ==
    [f EXCEPT !.Length = IF @ = 0 THEN DefaultLength ELSE @,
              !.IncludeUppercase = TRUE,
              !.IncludeLowercase = TRUE,
              !.IncludeNumbers = TRUE,
              !.IncludeSpecial = TRUE,
              !.ExcludeChars = IF @ = <<>> THEN DefaultExcludeChars ELSE @]

\* a configuration file's password settings (file), before config.Load has
\* read them; the model's files set password.length
GenLoadedInit ==
    /\ MainIdle
    /\ gen \in {[pc |-> "load", file |-> f, cfg |-> f, charset |-> <<>>,
                 password |-> <<>>, result |-> <<>>, err |-> ""] :
                f \in GenConfigs}
    /\ api = ApiIdle
    /\ mon = MonIdle

\* config.Load: setDefaults on what the file says; generateSecurePassword
\* is then called with the loaded configuration
LoadPasswordConfig ==
    /\ gen.pc = "load"
    /\ gen' = [gen EXCEPT !.cfg = setDefaultsPassword(gen.file),
                          !.pc = "charset"]
    /\ UNCHANGED <<mainVars, api, mon>>

GenLoadedNext ==
    \/ LoadPasswordConfig
    \/ GenNext

\* generateSecurePassword, called with a configuration that config.Load
\* returned
SpecGenLoaded == GenLoadedInit /\ [][GenLoadedNext]_vars

-----------------------------------------------------------------------------
(* internal/ldap: the methods of a Manager, called in any order            *)

\* the configurations, servers and names the methods are called with
ApiConfigs == {c \in Configs : c.PredefinedPasswords = <<>>
                                /\ c.DefaultPassword = ""
                                /\ c.GenerateRandom}
ApiServers == {"ldap.example.com", "consumer1.example.com"}
ApiNames == {"agreement-to-consumer1"}
ApiPasswords == {"E1"}

\* a Manager its holder declared itself (the zero value: no mode, not
\* connected); main is not running
ApiInit ==
    /\ pc = "flags"
    /\ eduMode = FALSE
    /\ prodMode = FALSE
    /\ dryRun = FALSE
    /\ enableMonitor = FALSE
    /\ operationMode = ""
    /\ monitorStarted = FALSE
    /\ cfg \in ApiConfigs
    /\ ldapManager = NoManager
    /\ agreements = <<>>
    /\ newPasswords = <<>>
    /\ planned = <<>>
    /\ idx = 0
    /\ calls = <<>>
    /\ out = <<>>
    /\ directory = [k \in DirectoryKeys |-> OldCredential]
    /\ ending = NotEnded
    /\ response = NoResponse
    /\ gen = GenIdle
    /\ api = ApiIdle
    /\ mon = MonIdle

\* what a call leaves unchanged: everything but the manager, the directory
\* and the record of the call
ApiFrame ==
    UNCHANGED <<pc, eduMode, prodMode, dryRun, enableMonitor, operationMode,
                monitorStarted, cfg, agreements, newPasswords, planned, idx,
                calls, out, ending, response, gen, mon>>

\* NewManager(cfg, eduMode, prodMode); a failed call returns no manager
ApiNewManager ==
    /\ \E edu \in BOOLEAN, prod \in BOOLEAN, connectOk \in ConnectOutcomes :
        LET r == NewManager(cfg, edu, prod, connectOk)
        IN /\ ldapManager' = IF r.err THEN ldapManager ELSE r.m
           /\ api' = [op |-> "NewManager",
                      connectedBefore |-> ldapManager.connected,
                      connectedAfter |-> ldapManager'.connected,
                      err |-> r.err, agreements |-> <<>>, wrote |-> FALSE,
                      call |-> <<>>]
    /\ UNCHANGED directory
    /\ ApiFrame

\* m.Close()
ApiClose ==
    /\ ldapManager' = Close(ldapManager)
    /\ api' = [op |-> "Close",
               connectedBefore |-> ldapManager.connected,
               connectedAfter |-> ldapManager'.connected,
               err |-> FALSE, agreements |-> <<>>, wrote |-> FALSE,
               call |-> <<>>]
    /\ UNCHANGED directory
    /\ ApiFrame

\* m.DiscoverReplicationAgreements()
ApiDiscover ==
    /\ \E search \in SearchOutcomes :
        LET r == DiscoverReplicationAgreements(ldapManager, cfg, search)
        IN api' = [op |-> "DiscoverReplicationAgreements",
                   connectedBefore |-> ldapManager.connected,
                   connectedAfter |-> ldapManager.connected,
                   err |-> r.err, agreements |-> r.agreements,
                   wrote |-> FALSE, call |-> <<>>]
    /\ UNCHANGED <<ldapManager, directory>>
    /\ ApiFrame

\* m.UpdateReplicationPassword(server, agreementName, newPassword, serverType)
ApiUpdate ==
    /\ \E server \in ApiServers, agreementName \in ApiNames,
          newPassword \in ApiPasswords,
          serverType \in {"supplier", "consumer"},
          modifyOk \in ModifyOutcomes :
        LET r == UpdateReplicationPassword(
                     ldapManager, cfg, directory, server, agreementName,
                     newPassword, serverType, modifyOk)
        IN /\ directory' = r.dir
           /\ api' = [op |-> "UpdateReplicationPassword",
                      connectedBefore |-> ldapManager.connected,
                      connectedAfter |-> ldapManager.connected,
                      err |-> r.err, agreements |-> <<>>,
                      wrote |-> (r.dir # directory), call |-> r.call]
    /\ UNCHANGED ldapManager
    /\ ApiFrame

ApiNext ==
    \/ ApiNewManager
    \/ ApiClose
    \/ ApiDiscover
    \/ ApiUpdate

SpecApi == ApiInit /\ [][ApiNext]_vars

-----------------------------------------------------------------------------
(* internal/monitor: GRPCMonitor                                           *)

\* the latest second the model's clock reaches
MaxClock == 30

\* grpc.check_interval of the configuration file (seconds)
CheckInterval == 1

\* config.go:385, checkLogFile reports an event when the second is a
\* multiple of this
DemoPeriod == 30

\* config.go:205-208, the default of grpc.log_paths
LogPaths == <<"/var/log/dirsrv/slapd-ldap/errors",
              "/var/log/dirsrv/slapd-ldap/access">>

\* time.Now().Unix() when StartGRPCMonitor is called
StartTimes == {28}

\* what the log files hold while the monitor runs, each line as the words
\* the pattern looks at: nothing at all, or an error 49 line that names an
\* agreement in the first file and a line of another operation in both
LogContents ==
    {[p \in Range(LogPaths) |-> <<>>],
     [p \in Range(LogPaths) |->
         IF p = LogPaths[1]
         THEN << <<"err=0", "tag=97">>,
                 <<"err=49", "agreement:", "agreement-to-consumer2">> >>
         ELSE << <<"err=0", "tag=97">> >>]}

\* watchLogFile's error49Pattern, `err=49.*agreement[:\s]+([^\s,]+)`: the
\* agreement names it captures from a line (none when the line does not
\* match)
error49Pattern(line) ==
    {line[j + 1] : j \in {k \in 1..(Len(line) - 1) :
                            /\ line[k] = "agreement:"
                            /\ \E i \in 1..(k - 1) : line[i] = "err=49"}}

\* a log path no watcher has been started for
NoWatcher == [pc |-> "none", tick |-> FALSE, due |-> 0, lastPosition |-> 0,
              polled |-> FALSE, scanned |-> 0]

\* the monitor NewGRPCMonitor returns to StartGRPCMonitor: the context is
\* not cancelled and no task runs yet
StartedMonitors ==
    {[ctxDone |-> FALSE, start |-> "spawn", spawned |-> 0,
      server |-> "none",
      watchers |-> [p \in Range(LogPaths) |-> NoWatcher],
      now |-> t, logs |-> l, events |-> <<>>] :
     t \in StartTimes, l \in LogContents}

\* StartGRPCMonitor has called NewGRPCMonitor; main and the generator play
\* no part
MonInit ==
    /\ MainIdle
    /\ gen = GenIdle
    /\ api = ApiIdle
    /\ mon \in StartedMonitors

\* StartGRPCMonitor: go monitor.watchLogFile(logPath), for the next path
SpawnWatcher ==
    /\ mon.start = "spawn"
    /\ mon.spawned < Len(LogPaths)
    /\ mon' = [mon EXCEPT !.spawned = @ + 1,
                          !.watchers[LogPaths[mon.spawned + 1]].pc = "start"]
    /\ UNCHANGED <<mainVars, gen, api>>

\* StartGRPCMonitor: go monitor.startGRPCServer(), then <-monitor.ctx.Done()
SpawnServer ==
    /\ mon.start = "spawn"
    /\ mon.spawned = Len(LogPaths)
    /\ mon' = [mon EXCEPT !.server = "start", !.start = "wait"]
    /\ UNCHANGED <<mainVars, gen, api>>

\* StartGRPCMonitor: the context is done, "GRPC monitor stopped", return
MonitorReturn ==
    /\ mon.start = "wait"
    /\ mon.ctxDone
    /\ mon' = [mon EXCEPT !.start = "stopped"]
    /\ UNCHANGED <<mainVars, gen, api>>

\* startGRPCServer: its log lines, then <-m.ctx.Done()
ServerStart ==
    /\ mon.server = "start"
    /\ mon' = [mon EXCEPT !.server = "wait"]
    /\ UNCHANGED <<mainVars, gen, api>>

\* startGRPCServer: the context is done, "GRPC server stopped", return
ServerReturn ==
    /\ mon.server = "wait"
    /\ mon.ctxDone
    /\ mon' = [mon EXCEPT !.server = "stopped"]
    /\ UNCHANGED <<mainVars, gen, api>>

\* watchLogFile: the pattern, the ticker (first tick one interval from
\* now), lastPosition = 0, and into the loop
WatcherStart(p) ==
    /\ mon.watchers[p].pc = "start"
    /\ mon' = [mon EXCEPT !.watchers[p].pc = "select",
                          !.watchers[p].tick = FALSE,
                          !.watchers[p].due = mon.now + CheckInterval,
                          !.watchers[p].lastPosition = 0]
    /\ UNCHANGED <<mainVars, gen, api>>

\* watchLogFile, select: case <-ticker.C
WatcherTick(p) ==
    /\ mon.watchers[p].pc = "select"
    /\ mon.watchers[p].tick
    /\ mon' = [mon EXCEPT !.watchers[p].pc = "check",
                          !.watchers[p].tick = FALSE]
    /\ UNCHANGED <<mainVars, gen, api>>

\* a faulty variant: the Done case leaves the select and not the loop
WatcherReturnLeavesSelect(p) ==
    /\ mon.watchers[p].pc = "select"
    /\ mon.ctxDone
    /\ mon' = [mon EXCEPT !.watchers[p].pc = "select"]
    /\ UNCHANGED <<mainVars, gen, api>>

\* watchLogFile, select: case <-m.ctx.Done(): return (the deferred
\* ticker.Stop() runs)
WatcherReturn(p) ==
    /\ mon.watchers[p].pc = "select"
    /\ mon.ctxDone
    /\ mon' = [mon EXCEPT !.watchers[p].pc = "returned",
                          !.watchers[p].tick = FALSE]
    /\ UNCHANGED <<mainVars, gen, api>>

\* the ErrorEvent checkLogFile builds.  rescan, unread and cancelled are
\* not fields of the event: they note whether the watcher had scanned the
\* file before, how many lines of the file no scan had passed before, and
\* whether the context was cancelled by then.
DemoEvent(p) ==
    [Timestamp |-> mon.now,
     AgreementName |-> "agreement-to-consumer1",
     LogLine |-> <<"RESULT", "err=49", "tag=97", "replication", "agreement:",
                   "agreement-to-consumer1">>,
     LogFile |-> p,
     Severity |-> "ERROR",
     rescan |-> mon.watchers[p].polled,
     unread |-> Len(mon.logs[p]) - mon.watchers[p].scanned,
     cancelled |-> mon.ctxDone]

\* handleErrorEvent: the event is logged with the actions it "would" take
handleErrorEvent(events, event) == Append(events, event)

\* checkLogFile(logPath, &lastPosition, pattern): it reads neither the file
\* nor lastPosition nor the pattern; when the second is a multiple of
\* DemoPeriod it hands its event to handleErrorEvent; it returns nil
checkLogFile(p) ==
    /\ mon.watchers[p].pc = "check"
    /\ mon' = [mon EXCEPT
                  !.events = IF mon.now % DemoPeriod = 0
                             THEN handleErrorEvent(@, DemoEvent(p))
                             ELSE @,
                  !.watchers[p].pc = "select",
                  !.watchers[p].polled = TRUE,
                  !.watchers[p].scanned = Len(mon.logs[p])]
    /\ UNCHANGED <<mainVars, gen, api>>

\* a second passes; the ticker of a watcher in its loop sends a tick when
\* its interval is over (a tick still waiting in the channel is kept, the
\* new one is dropped)
ClockTick ==
    /\ mon.now < MaxClock
    /\ LET fires(w) == w.pc \in {"select", "check"} /\ w.due = mon.now + 1
           after(w) == IF fires(w)
                       THEN [w EXCEPT !.tick = TRUE,
                                      !.due = @ + CheckInterval]
                       ELSE w
       IN mon' = [mon EXCEPT
                     !.now = @ + 1,
                     !.watchers = [p \in Range(LogPaths) |->
                                      after(mon.watchers[p])]]
    /\ UNCHANGED <<mainVars, gen, api>>

\* GRPCMonitor.Stop: m.cancel()
Stop ==
    /\ ~mon.ctxDone
    /\ mon' = [mon EXCEPT !.ctxDone = TRUE]
    /\ UNCHANGED <<mainVars, gen, api>>

\* the steps of the task that watches one log file
WatcherStep(p) ==
    \/ WatcherStart(p)
    \/ WatcherTick(p)
    \/ WatcherReturn(p)
    \/ checkLogFile(p)

MonNext ==
    \/ SpawnWatcher
    \/ SpawnServer
    \/ MonitorReturn
    \/ ServerStart
    \/ ServerReturn
    \/ \E p \in Range(LogPaths) : WatcherStep(p)
    \/ ClockTick
    \/ Stop

SpecMon == MonInit /\ [][MonNext]_vars

\* every task that can take a step takes one in the end, and a watcher
\* whose select finds the context done again and again takes that case in
\* the end (select chooses at random among the cases that are ready)
SpecMonFair ==
    /\ MonInit
    /\ [][MonNext]_vars
    /\ WF_vars(SpawnWatcher \/ SpawnServer \/ MonitorReturn)
    /\ WF_vars(ServerStart \/ ServerReturn)
    /\ \A p \in Range(LogPaths) :
          /\ WF_vars(WatcherStart(p) \/ WatcherTick(p) \/ checkLogFile(p))
          /\ SF_vars(WatcherReturn(p))

-----------------------------------------------------------------------------
(* main with --monitor: the process, its main flow and the monitor's tasks *)

\* the configuration file of the runs with --monitor
RunConfigs == {c \in Configs : /\ c.Host = "ldap.example.com"
                                /\ c.PredefinedPasswords = <<>>
                                /\ c.DefaultPassword = "D"
                                /\ ~c.GenerateRandom}

\* main is started with --monitor and with --edu, --dry-run, both or no
\* mode flag (a --prod run differs from an --edu run in the directory's
\* answers only)
RunInit ==
    /\ MainInit
    /\ enableMonitor
    /\ ~prodMode
    /\ cfg \in RunConfigs
    /\ gen = GenIdle
    /\ api = ApiIdle
    /\ mon = MonIdle

\* the process has ended: main returned, or log.Fatalf or os.Exit ended it
ProcessEnded == pc \in {"done", "exited"}

\* the monitors of these runs: their log files hold lines
RunMonitors == {m \in StartedMonitors : m.logs[LogPaths[1]] # <<>>}

\* the goroutine main started runs StartGRPCMonitor up to NewGRPCMonitor
GoStartGRPCMonitor ==
    /\ monitorStarted
    /\ mon = MonIdle
    /\ mon' \in RunMonitors
    /\ UNCHANGED <<mainVars, gen, api>>

\* a step of one of the monitor's goroutines, or a second passing; the
\* goroutines run only while the process does.  Nothing holds the monitor
\* but StartGRPCMonitor's local variable, so Stop has no caller.
RunMonitorStep ==
    /\ ~ProcessEnded
    /\ \/ GoStartGRPCMonitor
       \/ /\ mon # MonIdle
          /\ \/ SpawnWatcher
             \/ SpawnServer
             \/ ServerStart
             \/ \E p \in Range(LogPaths) :
                   WatcherStart(p) \/ WatcherTick(p) \/ checkLogFile(p)
             \/ ClockTick

RunNext ==
    \/ Next
    \/ RunMonitorStep

SpecRun == RunInit /\ [][RunNext]_vars

\* main takes its next step whenever it has one (the operator answers the
\* prompt, the directory answers); nothing is assumed of the monitor's
\* goroutines
SpecRunFair == RunInit /\ [][RunNext]_vars /\ WF_vars(Next)

\* what a log file holds after its rotation: the new file, with one error
\* 49 line written since
RotatedContent == << <<"err=49", "agreement:", "agreement-to-consumer3">> >>

\* the log file at p is rotated once the watcher's scans have passed more
\* lines than the new file holds (a position kept from those scans lies
\* past the end of the new file)
Rotate(p) ==
    /\ mon.watchers[p].scanned > Len(RotatedContent)
    /\ mon.logs[p] # RotatedContent
    /\ mon' = [mon EXCEPT !.logs[p] = RotatedContent]
    /\ UNCHANGED <<mainVars, gen, api>>

MonRotateNext ==
    \/ MonNext
    \/ \E p \in Range(LogPaths) : Rotate(p)

\* the monitor, with log files that are rotated while it runs
SpecMonRotate == MonInit /\ [][MonRotateNext]_vars

-----------------------------------------------------------------------------
(* Properties of the rotation cycle                                        *)

CallIdx == 1..Len(calls)

\* the calls made for one side of one agreement
SideCalls(name, side) ==
    {k \in CallIdx : calls[k].name = name /\ calls[k].side = side}

AgreementIdx == 1..Len(agreements)

InitialDirectory == [k \in DirectoryKeys |-> OldCredential]

\* where the directory keeps the two credentials of an agreement
SupplierKey(a) == [server |-> a.Supplier, object |-> a.Name,
                   attr |-> "nsds5replicacredentials"]
ConsumerKey(a) == [server |-> a.Consumer, object |-> "replication manager",
                   attr |-> "userPassword"]

HasLine(kind, name) ==
    \E k \in 1..Len(out) : out[k].kind = kind /\ out[k].name = name

\* the ldapmodify command that replaces attribute target.attr of the entry
\* target.object on target.server by value
CommandNaming(target, value) ==
    "ldapmodify -x -D \"" \o cfg.BindDN \o "\" -W -H ldap://" \o target.server
    \o ":" \o ToString(cfg.Port) \o " << EOF\ndn: "
    \o (IF target.object = "replication manager"
        THEN "cn=replication manager,cn=config"
        ELSE "cn=" \o target.object
             \o ",cn=replica,cn=dc=example,dc=com,cn=mapping tree,cn=config")
    \o "\nchangetype: modify\nreplace: " \o target.attr \o "\n" \o target.attr
    \o ": " \o value \o "\nEOF"

\* the command main printed in step 3 for one side of one agreement
PlannedCommands(name, side) ==
    {planned[k].command : k \in {j \in 1..Len(planned) :
                                    planned[j].name = name /\ planned[j].side = side}}

\* C1: every consumer-side call of UpdateReplicationPassword for an
\* agreement comes after a supplier-side call for that same agreement.
C1_SupplierBeforeConsumer ==
    \A k \in CallIdx :
        calls[k].side = "consumer" =>
            \E j \in 1..(k - 1) :
                calls[j].side = "supplier" /\ calls[j].name = calls[k].name

C1_Witness ==
    /\ pc = "done"
    /\ \E k \in CallIdx : calls[k].side = "consumer" /\ calls[k].mode = "production"

\* C2: when the supplier-side write failed for an agreement, no consumer-side
\* call is made for it, and a consumer account whose credential was changed
\* holds the credential the agreement object on the supplier was given.
C2_NoConsumerAfterSupplierFailure ==
    /\ \A j \in CallIdx :
          (calls[j].side = "supplier" /\ calls[j].err) =>
              SideCalls(calls[j].name, "consumer") = {}
    /\ \A i \in AgreementIdx :
          directory[ConsumerKey(agreements[i])] # OldCredential =>
              directory[SupplierKey(agreements[i])]
                  = directory[ConsumerKey(agreements[i])]

C2_Witness ==
    /\ pc = "done"
    /\ \E j \in CallIdx : calls[j].side = "supplier" /\ calls[j].err

\* C3: once the loop has run, every agreement of the catalog has had its
\* supplier-side call, its consumer-side call exactly when the supplier side
\* succeeded, and its success line exactly when both of its own calls
\* succeeded, whatever happened to the other agreements.
C3_FailureIsolation ==
    (pc \in {"return", "done"} /\ calls # <<>>) =>
        \A i \in AgreementIdx :
            LET n == agreements[i].Name
                sup == SideCalls(n, "supplier")
                con == SideCalls(n, "consumer")
            IN /\ Cardinality(sup) = 1
               /\ Cardinality(con) = (IF \E k \in sup : ~calls[k].err THEN 1 ELSE 0)
               /\ HasLine("success", n) <=>
                     /\ \E k \in sup : ~calls[k].err
                     /\ \E k \in con : ~calls[k].err

C3_Witness ==
    /\ pc = "done"
    /\ \E k \in CallIdx : /\ calls[k].name = "agreement-to-consumer1"
                          /\ calls[k].err
    /\ HasLine("success", "agreement-to-consumer2")

StepSequence == [k \in CallIdx |-> <<calls[k].name, calls[k].side>>]
FullSequence ==
    [k \in 1..(2 * Len(agreements)) |->
        <<agreements[(k + 1) \div 2].Name,
          IF k % 2 = 1 THEN "supplier" ELSE "consumer">>]

ExplicitConfigured(name) ==
    /\ name \in DOMAIN cfg.PredefinedPasswords
    /\ cfg.PredefinedPasswords[name] # ""
DefaultConfigured == cfg.DefaultPassword # ""

\* C7: an agreement with an explicit value and a default gets the explicit
\* value; one with only a default gets the default; one with neither gets no
\* value (the empty marker); each agreement's value depends on nothing else.
C7_ResolverPrecedence ==
    newPasswords # <<>> =>
        /\ DOMAIN newPasswords = {agreements[i].Name : i \in AgreementIdx}
        /\ \A n \in DOMAIN newPasswords :
              /\ (ExplicitConfigured(n) /\ DefaultConfigured) =>
                     newPasswords[n] = cfg.PredefinedPasswords[n]
              /\ (~ExplicitConfigured(n) /\ DefaultConfigured) =>
                     newPasswords[n] = cfg.DefaultPassword
              /\ (~ExplicitConfigured(n) /\ ~DefaultConfigured) =>
                     newPasswords[n] = ""

C7_Witness ==
    /\ newPasswords # <<>>
    /\ DefaultConfigured
    /\ ExplicitConfigured("agreement-to-consumer1")
    /\ ~ExplicitConfigured("agreement-to-consumer2")
    /\ newPasswords["agreement-to-consumer1"] # newPasswords["agreement-to-consumer2"]

\* C23: an agreement without a predefined password, when no default
\* password is configured and random generation is switched on, is given a
\* generated password by GeneratePasswords: its entry is not empty.
C23_GeneratedWhenEnabled ==
    newPasswords # <<>> =>
        \A n \in DOMAIN newPasswords :
            (~ExplicitConfigured(n) /\ ~DefaultConfigured
               /\ cfg.GenerateRandom) => newPasswords[n] # ""

\* C8: no call of UpdateReplicationPassword is made for an agreement whose
\* credential is unresolved; no write is attempted with an empty credential.
C8_UnresolvedExcluded ==
    \A k \in CallIdx : calls[k].value # ""

\* C9: an agreement whose supplier-side write succeeded and whose
\* consumer-side write failed has its own line in the output, which is not
\* the line of an agreement whose supplier-side write failed, nor the success
\* line.
C9_PartialDistinct ==
    \A i \in AgreementIdx :
        LET n == agreements[i].Name
            supFailed == \E k \in SideCalls(n, "supplier") : calls[k].err
            conFailed == \E k \in SideCalls(n, "consumer") : calls[k].err
        IN /\ conFailed => /\ HasLine("consumer failed", n)
                           /\ ~HasLine("supplier failed", n)
                           /\ ~HasLine("success", n)
           /\ supFailed => /\ HasLine("supplier failed", n)
                           /\ ~HasLine("consumer failed", n)
                           /\ ~HasLine("success", n)

C9_Witness ==
    /\ pc = "done"
    /\ \E k \in CallIdx : calls[k].side = "consumer" /\ calls[k].err
    /\ \E k \in CallIdx : calls[k].side = "supplier" /\ calls[k].err

\* whether generateSecurePassword returned a credential
GenReturned == gen.pc = "returned" /\ gen.err = ""

\* C10: a credential the generator returns has at least the configured
\* length, holds a character of every enabled class, and holds no excluded
\* character.
C10_GeneratedMeetsPolicy ==
    GenReturned =>
        /\ Len(gen.result) >= gen.cfg.Length
        /\ gen.cfg.IncludeLowercase =>
               Range(gen.result) \cap {"a", "l"} # {}
        /\ gen.cfg.IncludeUppercase =>
               Range(gen.result) \cap {"A", "O"} # {}
        /\ gen.cfg.IncludeNumbers =>
               Range(gen.result) \cap {"0", "7"} # {}
        /\ gen.cfg.IncludeSpecial =>
               Range(gen.result) \cap {"!", "@"} # {}
        /\ Range(gen.result) \cap Range(gen.cfg.ExcludeChars) = {}

C10_Witness ==
    /\ GenReturned
    /\ gen.cfg.IncludeLowercase /\ gen.cfg.IncludeUppercase
    /\ gen.cfg.IncludeNumbers /\ gen.cfg.IncludeSpecial
    /\ gen.cfg.ExcludeChars # <<>>
    /\ Len(gen.result) = 4

\* the classes the configuration requires
RequiredClasses(c) ==
    (IF c.IncludeLowercase THEN {Lowercase} ELSE {})
    \cup (IF c.IncludeUppercase THEN {Uppercase} ELSE {})
    \cup (IF c.IncludeNumbers THEN {Numbers} ELSE {})
    \cup (IF c.IncludeSpecial THEN {Special} ELSE {})

\* a configuration no password can meet although its character set is not
\* empty: a required class has all its characters excluded, or the length
\* is smaller than the number of required classes
Contradictory(c) ==
    /\ Len(Charset(c)) > 0
    /\ \/ \E class \in RequiredClasses(c) :
              Range(class) \cap Range(Charset(c)) = {}
       \/ c.Length < Cardinality(RequiredClasses(c))

\* C19: generateSecurePassword returns, with a credential or with an error,
\* also when its configuration is contradictory (stated for those
\* configurations: with the others, how many retries it takes depends on
\* the random draws).
C19_GenerationTerminates ==
    Contradictory(gen.cfg) ~> (gen.pc = "returned")

\* C25: when the configuration file switches a character class off, the
\* loaded configuration has it off (validatePassword requires the classes
\* whose Include field is set), and the character set the generator builds
\* holds no character of that class.
C25_ClassesToggle ==
    gen.pc \in {"draw", "returned"} =>
        /\ ~gen.file.IncludeLowercase =>
               /\ ~gen.cfg.IncludeLowercase
               /\ Range(gen.charset) \cap Range(Lowercase) = {}
        /\ ~gen.file.IncludeUppercase =>
               /\ ~gen.cfg.IncludeUppercase
               /\ Range(gen.charset) \cap Range(Uppercase) = {}
        /\ ~gen.file.IncludeNumbers =>
               /\ ~gen.cfg.IncludeNumbers
               /\ Range(gen.charset) \cap Range(Numbers) = {}
        /\ ~gen.file.IncludeSpecial =>
               /\ ~gen.cfg.IncludeSpecial
               /\ Range(gen.charset) \cap Range(Special) = {}

-----------------------------------------------------------------------------
(* Properties of main's exits and modes                                    *)

\* the statements of main from step 2 on
CyclePcs == {"resolve", "plan", "confirm", "supplier", "consumer", "return",
             "done"}

NoAgreementsMessage == "No replication agreements found."

FatalMessages == {"Error: Only one mode can be specified at a time",
                  "Failed to load configuration",
                  "Failed to create LDAP manager",
                  "Failed to discover replication agreements"}

CompletedMessages == {"Dry-run completed: No actual changes were made.",
                      "Password update completed!", "Operation cancelled."}

\* C12: when discovery returns no agreement, main prints its "No replication
\* agreements found." message and exits with status 0 before step 2: no
\* password is resolved, no command is planned, no call of
\* UpdateReplicationPassword is made; steps 2 to 4 run only with a non-empty
\* catalog; the ending differs from a fatal error's (status 1, another
\* message) and from a completed cycle's (another message).
C12_ZeroAgreementsNoOp ==
    /\ pc \in CyclePcs => Len(agreements) > 0
    /\ ending.message = NoAgreementsMessage =>
          /\ pc \in {"exit0", "exited"}
          /\ agreements = <<>> /\ newPasswords = <<>> /\ planned = <<>>
          /\ calls = <<>> /\ out = <<>> /\ directory = InitialDirectory
          /\ pc = "exited" => ending.status = 0
    /\ (pc = "exited" /\ ending.message # NoAgreementsMessage) =>
          ending.status = 1 /\ ending.message \in FatalMessages
    /\ pc = "done" => ending.message \in CompletedMessages

C12_Witness ==
    /\ pc = "exited"
    /\ ldapManager.connected
    /\ agreements = <<>>
    /\ ending = [status |-> 0, message |-> NoAgreementsMessage]

\* C13: after NewManager failed or DiscoverReplicationAgreements failed,
\* main is at its log.Fatalf or has exited with status 1: no password is
\* resolved, no command is planned and no call of UpdateReplicationPassword
\* is made; steps 1 to 4 run only with a connected manager.
C13_FatalAbortsCycle ==
    /\ ending.message \in {"Failed to create LDAP manager",
                            "Failed to discover replication agreements"} =>
          /\ pc \in {"fatal", "exited"}
          /\ newPasswords = <<>> /\ planned = <<>> /\ calls = <<>>
          /\ out = <<>> /\ directory = InitialDirectory
          /\ pc = "exited" => ending.status = 1
    /\ ending.message = "Failed to create LDAP manager" =>
          ~ldapManager.built /\ agreements = <<>>
    /\ (pc \in CyclePcs \ {"done"} \/ pc = "discover") =>
          ldapManager.connected
    /\ calls # <<>> => ldapManager.built

C13_Witness ==
    /\ pc = "exited"
    /\ ldapManager.connected
    /\ ending = [status |-> 1,
                 message |-> "Failed to discover replication agreements"]

\* the mode the manager works in
ActiveMode == IF ldapManager.eduMode THEN "educational"
              ELSE IF ldapManager.prodMode THEN "production"
              ELSE "dry-run"

Announced == IF operationMode = "educational (default)" THEN "educational"
             ELSE operationMode

\* C29: with one mode flag, or none, every call of
\* UpdateReplicationPassword takes the branch of the mode main announced:
\* the production branch only with --prod, the dry-run branch with
\* --dry-run (and the directory stays as it was), the educational branch
\* with --edu or without a mode flag; the manager holds main's two flags.
C29_BranchIsAnnouncedMode ==
    /\ ldapManager.built =>
          /\ ldapManager.eduMode = eduMode
          /\ ldapManager.prodMode = prodMode
    /\ \A k \in CallIdx :
          /\ calls[k].mode = Announced
          /\ calls[k].mode = "production" <=> prodMode
          /\ calls[k].mode = "dry-run" <=> dryRun
          /\ calls[k].mode = "educational" <=> eduMode
    /\ directory # InitialDirectory => (prodMode /\ ~dryRun /\ ~eduMode)

C29_Witness ==
    /\ pc = "done"
    /\ prodMode
    /\ operationMode = "production"
    /\ Len(calls) = 4
    /\ \A k \in CallIdx : calls[k].mode = "production" /\ ~calls[k].err

\* C28: outside dry-run mode UpdateReplicationPassword is called only after
\* the response "y" or "Y"; after any other response, the empty one
\* included, main returns with "Operation cancelled." and no call, and the
\* directory is as it was; in dry-run mode main never asks.
C28_ConfirmationGate ==
    /\ (calls # <<>> /\ ~dryRun) => response \in {"y", "Y"}
    /\ response \notin {"y", "Y", NoResponse} =>
          /\ pc \in {"return", "done"}
          /\ calls = <<>> /\ out = <<>> /\ directory = InitialDirectory
          /\ ending.message = "Operation cancelled."
    /\ dryRun => (pc # "confirm" /\ response = NoResponse)

C28_Witness ==
    /\ pc = "done"
    /\ ldapManager.eduMode
    /\ response = ""
    /\ calls = <<>>
    /\ planned # <<>>

\* C20: when the process has ended and a session had been established, the
\* session has been released (Close ran: connected is false).
C20_ClosedOnEveryExit ==
    (pc \in {"done", "exited"} /\ ldapManager.built) => ~ldapManager.connected

-----------------------------------------------------------------------------
(* Properties of what a cycle reports                                      *)

\* the classes the output of a cycle puts an agreement in: the success line
\* of step 4, the two failure lines of step 4, the ERROR line of step 2
ReportClasses(name) ==
    (IF HasLine("success", name) THEN {"fully succeeded"} ELSE {})
    \cup (IF HasLine("consumer failed", name) THEN {"partial"} ELSE {})
    \cup (IF HasLine("supplier failed", name) THEN {"failed"} ELSE {})
    \cup (IF newPasswords[name] = "" THEN {"unresolved"} ELSE {})

\* the number of agreements the output puts in a class
ReportCount(class) ==
    Cardinality({i \in AgreementIdx :
                    class \in ReportClasses(agreements[i].Name)})

\* C15: once the loop of step 4 is over, the output puts every agreement of
\* the catalog in exactly one of fully succeeded, partial, failed and
\* unresolved, the four counts add up to the number of agreements, and no
\* agreement whose consumer-side call failed is shown as succeeded.
C15_AggregateReport ==
    (pc \in {"return", "done"} /\ ending.message # "Operation cancelled.") =>
        /\ \A i \in AgreementIdx :
              Cardinality(ReportClasses(agreements[i].Name)) = 1
        /\ ReportCount("fully succeeded") + ReportCount("partial")
             + ReportCount("failed") + ReportCount("unresolved")
               = Len(agreements)
        /\ \A k \in CallIdx :
              (calls[k].side = "consumer" /\ calls[k].err) =>
                  "fully succeeded" \notin ReportClasses(calls[k].name)

-----------------------------------------------------------------------------
(* Properties of the Manager's methods                                     *)

-----------------------------------------------------------------------------
(* Properties of the monitor                                               *)

EventIdx == 1..Len(mon.events)

\* the events reported for one log file
EventsOf(p) == {k \in EventIdx : mon.events[k].LogFile = p}

\* the lines among the first n of a log file that the pattern matches
RecognizedIn(p, n) ==
    {j \in 1..n : error49Pattern(mon.logs[p][j]) # {}}

\* C11: a scan of a log file that has got no line since the watcher's scan
\* before reports no event.
C11_ScanIdempotent ==
    \A k \in EventIdx :
        mon.events[k].rescan => mon.events[k].unread > 0

\* C16: for every log file, the events reported are as many as the
\* recognized lines the scans have passed: none without a recognized line,
\* none missing for a recognized line that was scanned, at most one for a
\* line; every event names the agreement of a recognized line of its file.
C16_OneEventPerLine ==
    \A p \in Range(LogPaths) :
        /\ Cardinality(EventsOf(p))
              <= Cardinality(RecognizedIn(p, Len(mon.logs[p])))
        /\ Cardinality(EventsOf(p))
              >= Cardinality(RecognizedIn(p, mon.watchers[p].scanned))
        /\ \A k \in EventsOf(p) :
              \E j \in 1..Len(mon.logs[p]) :
                  mon.events[k].AgreementName
                      \in error49Pattern(mon.logs[p][j])

\* every task of the monitor has ended
AllStopped ==
    /\ mon.start = "stopped"
    /\ mon.server = "stopped"
    /\ \A p \in Range(LogPaths) : mon.watchers[p].pc = "returned"

\* C17: once Stop has cancelled the context, StartGRPCMonitor, the server
\* task and every watcher end, wherever each of them was; the context stays
\* cancelled and the ended tasks stay ended.
C17_StopTerminates ==
    /\ mon.ctxDone ~> AllStopped
    /\ [][mon.ctxDone => mon.ctxDone']_vars
    /\ [][AllStopped => AllStopped']_vars

C17_Witness ==
    /\ AllStopped
    /\ \A p \in Range(LogPaths) : mon.watchers[p].polled
    /\ mon.events # <<>>

-----------------------------------------------------------------------------
(* Properties of the apply loop's attempts and success lines               *)

\* C21: in one cycle UpdateReplicationPassword is called at most once for
\* each side of each agreement (a failed call is not repeated), and after a
\* failed consumer-side call no further call is made for that agreement.
C21_NoRetry ==
    /\ \A i \in AgreementIdx :
          /\ Cardinality(SideCalls(agreements[i].Name, "supplier")) <= 1
          /\ Cardinality(SideCalls(agreements[i].Name, "consumer")) <= 1
    /\ \A k \in CallIdx :
          (calls[k].side = "consumer" /\ calls[k].err) =>
              \A j \in (k + 1)..Len(calls) : calls[j].name # calls[k].name

C21_Witness ==
    /\ pc = "done"
    /\ Len(calls) = 3
    /\ calls[2].side = "consumer" /\ calls[2].err
    /\ calls[3].side = "supplier" /\ calls[3].err

\* C26: the success line of an agreement is printed only when its
\* supplier-side call and its consumer-side call were both made and both
\* returned no error; an agreement with a failed or missing call has none.
C26_SuccessNeedsBothSides ==
    \A i \in AgreementIdx :
        LET n == agreements[i].Name
        IN HasLine("success", n) =>
              /\ SideCalls(n, "supplier") # {}
              /\ SideCalls(n, "consumer") # {}
              /\ \A k \in SideCalls(n, "supplier") \cup SideCalls(n, "consumer") :
                    ~calls[k].err

C26_Witness ==
    /\ pc = "done"
    /\ HasLine("success", "agreement-to-consumer1")
    /\ HasLine("consumer failed", "agreement-to-consumer2")
    /\ ~HasLine("success", "agreement-to-consumer2")

-----------------------------------------------------------------------------
(* Properties of the write targets                                         *)

\* the ldapmodify command that replaces attr of the entry dn on server
CommandOn(server, dn, attr, value) ==
    "ldapmodify -x -D \"" \o cfg.BindDN \o "\" -W -H ldap://" \o server
    \o ":" \o ToString(cfg.Port) \o " << EOF\ndn: " \o dn
    \o "\nchangetype: modify\nreplace: " \o attr \o "\n" \o attr
    \o ": " \o value \o "\nEOF"

\* the command that writes one side of an agreement, from the agreement as
\* discovery returned it: its own DN on its supplier, or the replication
\* manager account on its consumer
CommandFor(a, side) ==
    IF side = "supplier"
    THEN CommandOn(a.Supplier, a.DN, "nsds5replicacredentials",
                   newPasswords[a.Name])
    ELSE CommandOn(a.Consumer, "cn=replication manager,cn=config",
                   "userPassword", newPasswords[a.Name])

\* C22: every command GeneratePasswordUpdateCommand derives for the
\* supplier side of a discovered agreement names that agreement's DN on the
\* supplier's address; the commands of step 3 and of the dry-run calls, and
\* the targets of the production calls, are those of the agreement and the
\* side alone, whenever in the cycle they are derived.
C22_TargetDerivation ==
    \A i \in AgreementIdx :
        LET a == agreements[i]
        IN /\ \A k \in 1..Len(planned) :
                 planned[k].name = a.Name =>
                     planned[k].command = CommandFor(a, planned[k].side)
           /\ \A k \in CallIdx :
                 calls[k].name = a.Name =>
                     /\ calls[k].mode = "dry-run" =>
                            calls[k].command = CommandFor(a, calls[k].side)
                     /\ calls[k].mode = "production" =>
                            calls[k].target
                              = IF calls[k].side = "supplier"
                                THEN SupplierKey(a) ELSE ConsumerKey(a)

C22_Witness ==
    /\ pc = "done"
    /\ \E k \in CallIdx : /\ calls[k].mode = "dry-run"
                          /\ calls[k].side = "supplier"
                          /\ calls[k].name = "agreement-to-consumer2"
                          /\ calls[k].value = "E2"
    /\ Len(planned) = 4

-----------------------------------------------------------------------------
(* Properties of the monitor under rotation and cancellation               *)

\* C24: after a log file was rotated below what the watcher had scanned and
\* the watcher has scanned the new file, the watcher's position lies within
\* the new file, the watcher is in its loop (or has returned on
\* cancellation), and the error 49 line written after the rotation has its
\* event.
C24_RotationTolerated ==
    \A p \in Range(LogPaths) :
        (/\ mon.logs[p] = RotatedContent
         /\ mon.watchers[p].scanned = Len(RotatedContent)) =>
            /\ mon.watchers[p].lastPosition <= Len(mon.logs[p])
            /\ mon.watchers[p].pc \in {"select", "check", "returned"}
            /\ \E k \in EventsOf(p) :
                  mon.events[k].AgreementName
                      \in error49Pattern(RotatedContent[1])

\* C27: no event is handled once the context has been cancelled.
C27_NoEventAfterStop ==
    \A k \in EventIdx : ~mon.events[k].cancelled

-----------------------------------------------------------------------------
(* Properties of main run with --monitor                                   *)

\* C30: main, started with --monitor, ends (it returns, or log.Fatalf or
\* os.Exit ends the process) whatever the monitor's goroutines do; from
\* then on no goroutine of the monitor takes a step, and the context was
\* never cancelled; a step of the monitor leaves the manager, the record of
\* the update calls, the discovered agreements and the directory as they
\* were.
C30_MonitorBesideCycle ==
    /\ <>ProcessEnded
    /\ [][ProcessEnded => mon' = mon]_vars
    /\ [](mon # MonIdle => ~mon.ctxDone)
    /\ [][mon' # mon =>
             UNCHANGED <<ldapManager, calls, agreements, directory, pc>>]_vars

C30_Witness ==
    /\ pc = "done"
    /\ Len(calls) = 4
    /\ mon # MonIdle
    /\ mon.events # <<>>
    /\ \E p \in Range(LogPaths) : mon.watchers[p].pc = "check"

=============================================================================
